---- MODULE Spec2Model ----
(***************************************************************************)
(* Model of the concurrent runner of astro (astro/sessions.go): the three  *)
(* run paths Session.plan, Session.apply and Session.applyWithGraph, the   *)
(* two channels they hand out, the signal watcher and the consumers of    *)
(* the channels.                                                           *)
(*                                                                         *)
(* One behaviour is one top-level call.  A closure step is the status      *)
(* send, the hook or provisioner call that follows it, and the Result      *)
(* send made when that call fails: the calls touch no shared state, so    *)
(* the step is enabled exactly when its channel sends can proceed.         *)
(***************************************************************************)
EXTENDS Integers, Sequences, FiniteSets, TLC

\* ---------------------------------------------------------------- bounds
MaxExec == 3        \* executions in one graph-walked run
MaxFlatExec == 2    \* executions in one flat run
MaxHooks == 9       \* PreModuleRun hooks of one module
MaxSignals == 2     \* OS signals delivered to the process during one run

\* ------------------------------------------------------ program constants
StatusFactor == 10  \* make(chan string, numberOfExecutions*10)
PoolWidth == 10     \* utils.Parallel(ctx, 10, fns...)
SignalCap == 1      \* make(chan os.Signal, 1)

Ops == {"plan", "apply", "applyWithGraph"}
HookCounts == {0, 1, MaxHooks}
\* Long hook lists are tried on runs of a single execution.
HookChoices(n) == IF n = 1 THEN HookCounts ELSE {0, 1}

VARIABLES
    op,                  \* which of plan / apply / applyWithGraph was called
    detach,              \* plan's detach parameter
    boundExecutions,     \* the input list; element i has id i
    loopVarPerIteration, \* TRUE: the range variable is fresh per iteration
                         \* (Go >= 1.22); FALSE: one variable for the loop
    pc,                  \* per execution: position of its closure
    hooksDone,           \* per execution: hooks completed by its closure
    calls,               \* per execution: hook and provisioner calls made
    walkErr,             \* per vertex: the walker recorded an error for it
    rootDone,            \* the walker visited the synthetic root
    status,              \* lines buffered in the status channel
    statusLog,           \* per execution: status lines sent so far
    statusClosed,        \* number of close(status) performed
    results,             \* every Result sent on the result channel, in order
    resultsRead,         \* Results the consumer has received
    closed,              \* number of close(results) performed
    sentAfterClose,      \* a Result was sent on the closed channel
    ctxDone,             \* the run's cancellation token is cancelled
    signalChan,          \* signals buffered in session.signalChan
    signalsSeen,         \* signals the process received during the run
    watcher,             \* the signal goroutine: "none", "waiting", "done"
    notices,             \* "Received signal" lines printed
    inFlightAtCancel,    \* closures in flight when the token was cancelled
    callReturn,          \* the top-level call: "pending", "channels", "error"
    errors,              \* printExecStatus: the errors appended so far
    printReturn,         \* printExecStatus: "running", "nil", "errors"
    current,             \* SessionRepo.current: a session id, 0 for nil
    sessionDirs,         \* session directories under the repository
    currentOk,           \* calls of Current that returned a session
    newSessionOk,        \* direct calls of NewSession that returned one
    repoCalls,           \* calls made on the SessionRepo
    lastSession,         \* what the last call returned, 0 for an error
    params,              \* cartesian: the value lists it is called with
    res,                 \* cartesian: the tuples it returned
    cartesianReturned,   \* cartesian has been called and has returned
    project,             \* expansion: the module configurations
    userValues,          \* expansion: UserVars.Values
    userFilters,         \* expansion: names marked true in UserVars.Filters
    moduleNames,         \* expansion: ModuleNames, empty for no restriction
    executionSet,        \* expansion: the bound executions produced
    expandReturn,        \* expansion: "pending", "ok" or the error
    archive,             \* unzip: the entries of the archive, in order
    destDir,             \* unzip: the destination directory
    entryIndex,          \* unzip: the entry being processed, 0 before opening
    unzipReturn,         \* unzip: "running", "nil" or the error returned
    written,             \* unzip: paths it created or opened for writing
    incomplete,          \* unzip: files whose copy failed
    runState,            \* per run on one Session: "idle", "active", "returned"
    runWatcher,          \* per run: its signal goroutine
    runCancelled,        \* per run: its token is cancelled
    runNotices,          \* per run: notices its goroutine printed
    sessionSignalChan,   \* signals buffered in the Session's channel
    sessionSignals       \* signals the process received

cfgVars == <<op, detach, boundExecutions, loopVarPerIteration>>
sigVars == <<ctxDone, signalChan, signalsSeen, watcher, notices, inFlightAtCancel>>
statusVars == <<status, statusLog>>
resultVars == <<results, sentAfterClose>>
walkVars == <<walkErr, rootDone>>
consumerVars == <<errors, printReturn>>
repoVars == <<current, sessionDirs, currentOk, newSessionOk, repoCalls, lastSession>>
cartVars == <<params, res, cartesianReturned>>
expVars == <<project, userValues, userFilters, moduleNames, executionSet, expandReturn>>
zipVars == <<archive, destDir, entryIndex, unzipReturn, written, incomplete>>
sessVars == <<runState, runWatcher, runCancelled, runNotices, sessionSignalChan,
              sessionSignals>>
sideVars == <<repoVars, cartVars, expVars, zipVars, sessVars>>
vars == <<op, detach, boundExecutions, loopVarPerIteration, pc, hooksDone,
          calls, walkErr, rootDone, status, statusLog, results, resultsRead,
          closed, sentAfterClose, statusClosed, ctxDone, signalChan, signalsSeen,
          watcher, notices, inFlightAtCancel, callReturn, errors, printReturn, sideVars>>
runVars == <<op, detach, boundExecutions, loopVarPerIteration, pc, hooksDone,
             calls, walkErr, rootDone, status, statusLog, results, resultsRead,
             closed, sentAfterClose, statusClosed, ctxDone, signalChan, signalsSeen,
             watcher, notices, inFlightAtCancel, callReturn, errors, printReturn>>

\* ---------------------------------------------------------------- helpers
numberOfExecutions == Len(boundExecutions)
Execs == 1..numberOfExecutions
StatusCap == numberOfExecutions * StatusFactor
ResultsCap == numberOfExecutions
Flat == op \in {"plan", "apply"}

\* b.ID(): b is the per-iteration copy "b := e" of the range variable.
IDLoopVar(e) == IF loopVarPerIteration THEN e ELSE numberOfExecutions
ID(e) == e

Result(e, tf, err) == [id |-> ID(e), terraformResult |-> tf, err |-> err]

\* The execution whose module configuration a plan closure reads its hook
\* list from: "range e.ModuleConfig().Hooks.PreModuleRun" names the range
\* variable, not the copy b, and is evaluated when the closure runs, after
\* the loop has ended.
PlanHookSource(e) == IF loopVarPerIteration THEN e ELSE numberOfExecutions
PlanHooks(e) == boundExecutions[PlanHookSource(e)].hooks
GraphHooks(e) == boundExecutions[e].hooks

InFlight == {e \in Execs : pc[e] \in {"session", "hook", "init", "detach", "run"}}
Finished == {e \in Execs : pc[e] \in {"done", "skipped"}}

\* ---------------------------------------------------------------- channels
\* status <- line: blocks while the buffer is full.
SendStatus(e, phase) ==
    /\ status < StatusCap
    /\ status' = status + 1
    /\ statusLog' = [statusLog EXCEPT ![e] = Append(@, phase)]

\* results <- r: blocks while the buffer is full; a send on a closed
\* channel is recorded.
SendResult(r) ==
    /\ Len(results) - resultsRead < ResultsCap
    /\ results' = Append(results, r)
    /\ sentAfterClose' = (sentAfterClose \/ closed > 0)

Invoke(e, call) == calls' = [calls EXCEPT ![e] = Append(@, call)]
Goto(e, stage) == pc' = [pc EXCEPT ![e] = stage]

\* -------------------------------------------------------------------- Init
\* A repository on which nothing has been called.
RepoIdle ==
    /\ current = 0 /\ sessionDirs = {}
    /\ currentOk = 0 /\ newSessionOk = 0 /\ repoCalls = 0 /\ lastSession = 0

\* cartesian has not been called.
CartIdle == params = <<>> /\ res = <<>> /\ cartesianReturned = FALSE

\* No project is being expanded.
ExpandIdle ==
    /\ project = <<>> /\ userValues = <<>> /\ userFilters = {} /\ moduleNames = {}
    /\ executionSet = <<>> /\ expandReturn = "pending"

\* unzip has not been called.
ZipIdle ==
    /\ archive = <<>> /\ destDir = <<>> /\ entryIndex = 0
    /\ unzipReturn = "running" /\ written = {} /\ incomplete = {}

\* No call has been made on the Session.
SessIdle ==
    /\ runState = <<>> /\ runWatcher = <<>> /\ runCancelled = <<>>
    /\ runNotices = <<>> /\ sessionSignalChan = 0 /\ sessionSignals = 0

SideIdle == RepoIdle /\ CartIdle /\ ExpandIdle /\ ZipIdle /\ SessIdle

\* What d reaches from the set S in at most k steps.
RECURSIVE Reach(_, _, _)
Reach(d, S, k) ==
    IF k = 0 THEN S ELSE Reach(d, S \cup UNION {d[x] : x \in S}, k - 1)

\* The graph is rejected when a module reaches itself through its
\* dependencies (a self-reference included).
Cyclic(d) == \E e \in DOMAIN d : e \in Reach(d, d[e], Cardinality(DOMAIN d))

\* Acyclic inputs, numbered so that dependencies have smaller ids.
Graphs(n) == {d \in [1..n -> SUBSET (1..n)] : \A i \in 1..n : \A j \in d[i] : j < i}
CyclicGraphs(n) == {d \in [1..n -> SUBSET (1..n)] : Cyclic(d)}

Init ==
    /\ op \in Ops
    /\ detach \in (IF op = "plan" THEN BOOLEAN ELSE {FALSE})
    /\ loopVarPerIteration \in (IF op = "plan" THEN BOOLEAN ELSE {TRUE})
    /\ \E n \in 1..(IF op = "applyWithGraph" THEN MaxExec ELSE MaxFlatExec) :
         \E h \in [1..n -> HookChoices(n)] :
           \E d \in (IF op = "applyWithGraph" THEN Graphs(n) \cup CyclicGraphs(n)
                                               ELSE {[i \in 1..n |-> {}]}) :
             boundExecutions = [i \in 1..n |-> [hooks |-> h[i], deps |-> d[i]]]
    /\ pc = [e \in Execs |-> "pending"]
    /\ hooksDone = [e \in Execs |-> 0]
    /\ calls = [e \in Execs |-> <<>>]
    /\ walkErr = [e \in Execs |-> FALSE]
    /\ rootDone = FALSE
    /\ status = 0
    /\ statusLog = [e \in Execs |-> <<>>]
    /\ results = <<>>
    /\ resultsRead = 0
    /\ closed = 0
    /\ sentAfterClose = FALSE
    /\ statusClosed = 0
    /\ ctxDone = FALSE
    /\ signalChan = 0
    /\ signalsSeen = 0
    /\ watcher = IF op = "applyWithGraph" THEN "none" ELSE "waiting"
    /\ notices = 0
    /\ inFlightAtCancel = {}
    /\ callReturn = IF op = "applyWithGraph" THEN "pending" ELSE "channels"
    /\ errors = <<>>
    /\ printReturn = "running"
    /\ SideIdle

\* ------------------------------------------------------------ utils.Parallel
\* The token handed to the pool: utils.Parallel(ctx, 10, fns...) passes the
\* context the signal goroutine cancels.
BackgroundCtxDone == FALSE
ParallelCtxDone == ctxDone

\* The worker pool: at most PoolWidth closures in flight, none started once
\* the token is cancelled, returns when nothing is in flight and nothing
\* more will be started.
ParallelReturned ==
    /\ InFlight = {}
    /\ (ParallelCtxDone \/ \A e \in Execs : pc[e] = "done")

ParallelStart(e) ==
    /\ Flat
    /\ pc[e] = "pending"
    /\ ~ParallelCtxDone
    /\ Cardinality(InFlight) < PoolWidth
    /\ Goto(e, "session")
    /\ UNCHANGED <<sideVars, cfgVars, statusClosed, callReturn, consumerVars, sigVars, statusVars, resultVars, walkVars, hooksDone,
                   calls, resultsRead, closed>>

\* ------------------------------------------------------------- Session.plan
PlanNewSession(e) ==
    /\ op = "plan" /\ pc[e] = "session"
    /\ Invoke(e, "newSession")
    /\ \/ /\ Goto(e, IF PlanHooks(e) > 0 THEN "hook" ELSE "init")
          /\ UNCHANGED resultVars
       \/ /\ SendResult(Result(e, FALSE, "newSession"))
          /\ Goto(e, "done")
    /\ UNCHANGED <<sideVars, cfgVars, statusClosed, callReturn, consumerVars, sigVars, statusVars, walkVars, hooksDone, resultsRead, closed>>

PlanHook(e) ==
    /\ op = "plan" /\ pc[e] = "hook"
    /\ SendStatus(e, "Running PreModuleRun hook")
    /\ Invoke(e, "hook")
    /\ \/ /\ hooksDone' = [hooksDone EXCEPT ![e] = @ + 1]
          /\ Goto(e, IF hooksDone[e] + 1 < PlanHooks(e) THEN "hook" ELSE "init")
          /\ UNCHANGED resultVars
       \/ /\ SendResult(Result(e, FALSE, "hook"))
          /\ Goto(e, "done")
          /\ UNCHANGED hooksDone
    /\ UNCHANGED <<sideVars, cfgVars, statusClosed, callReturn, consumerVars, sigVars, walkVars, resultsRead, closed>>

\* An init failure that returns without sending the Result.
PlanInitSilent(e) ==
    /\ op = "plan" /\ pc[e] = "init"
    /\ SendStatus(e, "Initializing")
    /\ Invoke(e, "init")
    /\ \/ Goto(e, IF detach THEN "detach" ELSE "run")
       \/ Goto(e, "done")
    /\ UNCHANGED <<sideVars, cfgVars, statusClosed, callReturn, consumerVars, sigVars, resultVars, walkVars, hooksDone, resultsRead, closed>>

PlanInit(e) ==
    /\ op = "plan" /\ pc[e] = "init"
    /\ SendStatus(e, "Initializing")
    /\ Invoke(e, "init")
    /\ \/ /\ Goto(e, IF detach THEN "detach" ELSE "run")
          /\ UNCHANGED resultVars
       \/ /\ SendResult(Result(e, TRUE, "init"))
          /\ Goto(e, "done")
    /\ UNCHANGED <<sideVars, cfgVars, statusClosed, callReturn, consumerVars, sigVars, walkVars, hooksDone, resultsRead, closed>>

\* A detach step that announces itself with the next phase's line.
PlanDetachWrongLine(e) ==
    /\ op = "plan" /\ pc[e] = "detach"
    /\ SendStatus(e, "Planning")
    /\ Invoke(e, "detach")
    /\ \/ /\ Goto(e, "run")
          /\ UNCHANGED resultVars
       \/ /\ SendResult(Result(e, TRUE, "detach"))
          /\ Goto(e, "done")
    /\ UNCHANGED <<sideVars, cfgVars, statusClosed, callReturn, consumerVars, sigVars, walkVars, hooksDone, resultsRead, closed>>

PlanDetach(e) ==
    /\ op = "plan" /\ pc[e] = "detach"
    /\ SendStatus(e, "Disconnecting remote state")
    /\ Invoke(e, "detach")
    /\ \/ /\ Goto(e, "run")
          /\ UNCHANGED resultVars
       \/ /\ SendResult(Result(e, TRUE, "detach"))
          /\ Goto(e, "done")
    /\ UNCHANGED <<sideVars, cfgVars, statusClosed, callReturn, consumerVars, sigVars, walkVars, hooksDone, resultsRead, closed>>

PlanPlan(e) ==
    /\ op = "plan" /\ pc[e] = "run"
    /\ SendStatus(e, "Planning")
    /\ Invoke(e, "plan")
    /\ \E err \in {"nil", "plan"} : SendResult(Result(e, TRUE, err))
    /\ Goto(e, "done")
    /\ UNCHANGED <<sideVars, cfgVars, statusClosed, callReturn, consumerVars, sigVars, walkVars, hooksDone, resultsRead, closed>>

\* ------------------------------------------------------------ Session.apply
\* A flat apply closure that runs a hook after making its session.
ApplyNewSessionWithHook(e) ==
    /\ op = "apply" /\ pc[e] = "session"
    /\ calls' = [calls EXCEPT ![e] = @ \o <<"newSession", "hook">>]
    /\ \/ /\ Goto(e, "init")
          /\ UNCHANGED resultVars
       \/ /\ SendResult(Result(e, FALSE, "newSession"))
          /\ Goto(e, "done")
    /\ UNCHANGED <<sideVars, cfgVars, statusClosed, callReturn, consumerVars, sigVars, statusVars, walkVars, hooksDone, resultsRead, closed>>

ApplyNewSession(e) ==
    /\ op = "apply" /\ pc[e] = "session"
    /\ Invoke(e, "newSession")
    /\ \/ /\ Goto(e, "init")
          /\ UNCHANGED resultVars
       \/ /\ SendResult(Result(e, FALSE, "newSession"))
          /\ Goto(e, "done")
    /\ UNCHANGED <<sideVars, cfgVars, statusClosed, callReturn, consumerVars, sigVars, statusVars, walkVars, hooksDone, resultsRead, closed>>

\* An init failure that sends its Result and goes on to apply.
ApplyInitFallsThrough(e) ==
    /\ op = "apply" /\ pc[e] = "init"
    /\ SendStatus(e, "Initializing")
    /\ Invoke(e, "init")
    /\ \/ UNCHANGED resultVars
       \/ SendResult(Result(e, TRUE, "init"))
    /\ Goto(e, "run")
    /\ UNCHANGED <<sideVars, cfgVars, statusClosed, callReturn, consumerVars, sigVars, walkVars, hooksDone, resultsRead, closed>>

ApplyInit(e) ==
    /\ op = "apply" /\ pc[e] = "init"
    /\ SendStatus(e, "Initializing")
    /\ Invoke(e, "init")
    /\ \/ /\ Goto(e, "run")
          /\ UNCHANGED resultVars
       \/ /\ SendResult(Result(e, TRUE, "init"))
          /\ Goto(e, "done")
    /\ UNCHANGED <<sideVars, cfgVars, statusClosed, callReturn, consumerVars, sigVars, walkVars, hooksDone, resultsRead, closed>>

ApplyApply(e) ==
    /\ op = "apply" /\ pc[e] = "run"
    /\ SendStatus(e, "Applying")
    /\ Invoke(e, "apply")
    /\ \E err \in {"nil", "apply"} : SendResult(Result(e, TRUE, err))
    /\ Goto(e, "done")
    /\ UNCHANGED <<sideVars, cfgVars, statusClosed, callReturn, consumerVars, sigVars, walkVars, hooksDone, resultsRead, closed>>

\* --------------------------------------------- flat mode: signal and close
\* go func() { sig := <-session.signalChan; Printf(...); cancel() }()
SignalWatcher ==
    /\ watcher = "waiting"
    /\ signalChan > 0
    /\ signalChan' = signalChan - 1
    /\ notices' = notices + 1
    /\ ctxDone' = TRUE
    /\ watcher' = "done"
    /\ inFlightAtCancel' = InFlight
    /\ UNCHANGED <<sideVars, cfgVars, statusClosed, callReturn, consumerVars, statusVars, resultVars, walkVars, pc, hooksDone, calls,
                   resultsRead, closed, signalsSeen>>

\* close(results) not waiting for utils.Parallel to return.
FlatCloseEarly ==
    /\ Flat /\ closed = 0
    /\ closed' = closed + 1
    /\ UNCHANGED <<sideVars, cfgVars, statusClosed, callReturn, consumerVars, sigVars, statusVars, resultVars, walkVars, pc, hooksDone,
                   calls, resultsRead>>

\* go func() { defer close(results); utils.Parallel(ctx, 10, fns...) }()
FlatClose ==
    /\ Flat /\ closed = 0
    /\ ParallelReturned
    /\ closed' = closed + 1
    /\ UNCHANGED <<sideVars, cfgVars, statusClosed, callReturn, consumerVars, sigVars, statusVars, resultVars, walkVars, pc, hooksDone,
                   calls, resultsRead>>

\* --------------------------------------------------- Session.applyWithGraph
\* graph.Walk: a vertex is visited once all vertices it depends on have
\* been visited; it is skipped, and counts as failed for its own
\* dependents, when one of them failed.  The root is the predecessor of the
\* executions without dependencies.
Deps(e) == boundExecutions[e].deps
DepsOf == [e \in Execs |-> Deps(e)]

\* graph, err := boundExecutions.graph()
GraphErr == Cyclic(DepsOf)

\* A call that goes on to make the channels whatever the graph build said.
BuildGraphIgnoresErr ==
    /\ op = "applyWithGraph" /\ callReturn = "pending"
    /\ callReturn' = "channels"
    /\ UNCHANGED <<sideVars, cfgVars, statusClosed, consumerVars, sigVars, statusVars, resultVars, walkVars,
                   pc, hooksDone, calls, resultsRead, closed>>

\* if err != nil { return nil, nil, err }; otherwise the channels are made and
\* the walk goroutine is started.
BuildGraph ==
    /\ op = "applyWithGraph" /\ callReturn = "pending"
    /\ callReturn' = IF GraphErr THEN "error" ELSE "channels"
    /\ UNCHANGED <<sideVars, cfgVars, statusClosed, consumerVars, sigVars, statusVars, resultVars, walkVars,
                   pc, hooksDone, calls, resultsRead, closed>>

WalkReady(e) ==
    /\ \A d \in Deps(e) : pc[d] \in {"done", "skipped"}
    /\ (Deps(e) = {} => rootDone)

\* if _, ok := vertex.(graphNodeRoot); ok { return nil }
WalkRoot ==
    /\ op = "applyWithGraph" /\ callReturn = "channels" /\ ~rootDone
    /\ rootDone' = TRUE
    /\ UNCHANGED <<sideVars, cfgVars, statusClosed, callReturn, consumerVars, sigVars, statusVars, resultVars, pc, hooksDone, calls,
                   walkErr, resultsRead, closed>>

WalkStart(e) ==
    /\ op = "applyWithGraph" /\ pc[e] = "pending"
    /\ WalkReady(e)
    /\ \A d \in Deps(e) : ~walkErr[d]
    /\ Goto(e, "session")
    /\ UNCHANGED <<sideVars, cfgVars, statusClosed, callReturn, consumerVars, sigVars, statusVars, resultVars, walkVars, hooksDone,
                   calls, resultsRead, closed>>

WalkSkip(e) ==
    /\ op = "applyWithGraph" /\ pc[e] = "pending"
    /\ WalkReady(e)
    /\ \E d \in Deps(e) : walkErr[d]
    /\ Goto(e, "skipped")
    /\ walkErr' = [walkErr EXCEPT ![e] = TRUE]
    /\ UNCHANGED <<sideVars, cfgVars, statusClosed, callReturn, consumerVars, sigVars, statusVars, resultVars, rootDone, hooksDone,
                   calls, resultsRead, closed>>

\* "return err" of the walk callback.
ReturnErr(e) == walkErr' = [walkErr EXCEPT ![e] = TRUE]

GraphNewSession(e) ==
    /\ op = "applyWithGraph" /\ pc[e] = "session"
    /\ Invoke(e, "newSession")
    /\ \/ /\ Goto(e, IF GraphHooks(e) > 0 THEN "hook" ELSE "init")
          /\ UNCHANGED <<resultVars, walkErr>>
       \/ /\ SendResult(Result(e, FALSE, "newSession"))
          /\ Goto(e, "done")
          /\ ReturnErr(e)
    /\ UNCHANGED <<sideVars, cfgVars, statusClosed, callReturn, consumerVars, sigVars, statusVars, rootDone, hooksDone, resultsRead, closed>>

\* A hook failure reported on the channel but returned as nil to the walker.
GraphHookReturnsNil(e) ==
    /\ op = "applyWithGraph" /\ pc[e] = "hook"
    /\ SendStatus(e, "Running PreModuleRun hook")
    /\ Invoke(e, "hook")
    /\ \/ /\ hooksDone' = [hooksDone EXCEPT ![e] = @ + 1]
          /\ Goto(e, IF hooksDone[e] + 1 < GraphHooks(e) THEN "hook" ELSE "init")
          /\ UNCHANGED resultVars
       \/ /\ SendResult(Result(e, FALSE, "hook"))
          /\ Goto(e, "done")
          /\ UNCHANGED hooksDone
    /\ UNCHANGED <<sideVars, cfgVars, statusClosed, callReturn, consumerVars, sigVars, walkVars, resultsRead, closed>>

GraphHook(e) ==
    /\ op = "applyWithGraph" /\ pc[e] = "hook"
    /\ SendStatus(e, "Running PreModuleRun hook")
    /\ Invoke(e, "hook")
    /\ \/ /\ hooksDone' = [hooksDone EXCEPT ![e] = @ + 1]
          /\ Goto(e, IF hooksDone[e] + 1 < GraphHooks(e) THEN "hook" ELSE "init")
          /\ UNCHANGED <<resultVars, walkErr>>
       \/ /\ SendResult(Result(e, FALSE, "hook"))
          /\ Goto(e, "done")
          /\ ReturnErr(e)
          /\ UNCHANGED hooksDone
    /\ UNCHANGED <<sideVars, cfgVars, statusClosed, callReturn, consumerVars, sigVars, rootDone, resultsRead, closed>>

\* An init failure reported on the channel but returned as nil to the walker.
GraphInitReturnsNil(e) ==
    /\ op = "applyWithGraph" /\ pc[e] = "init"
    /\ SendStatus(e, "Initializing")
    /\ Invoke(e, "init")
    /\ \/ /\ Goto(e, "run")
          /\ UNCHANGED <<resultVars, walkErr>>
       \/ /\ SendResult(Result(e, TRUE, "init"))
          /\ Goto(e, "done")
          /\ UNCHANGED walkErr
    /\ UNCHANGED <<sideVars, cfgVars, statusClosed, callReturn, consumerVars, sigVars, rootDone, hooksDone, resultsRead, closed>>

GraphInit(e) ==
    /\ op = "applyWithGraph" /\ pc[e] = "init"
    /\ SendStatus(e, "Initializing")
    /\ Invoke(e, "init")
    /\ \/ /\ Goto(e, "run")
          /\ UNCHANGED <<resultVars, walkErr>>
       \/ /\ SendResult(Result(e, TRUE, "init"))
          /\ Goto(e, "done")
          /\ ReturnErr(e)
    /\ UNCHANGED <<sideVars, cfgVars, statusClosed, callReturn, consumerVars, sigVars, rootDone, hooksDone, resultsRead, closed>>

\* The apply Result sent asynchronously, after the callback has returned.
GraphApplyLateSend(e) ==
    /\ op = "applyWithGraph"
    /\ \/ /\ pc[e] = "run"
          /\ SendStatus(e, "Applying")
          /\ Invoke(e, "apply")
          /\ Goto(e, "done")
          /\ UNCHANGED <<resultVars, walkErr>>
       \/ /\ pc[e] = "done"
          /\ Len(calls[e]) > 0 /\ calls[e][Len(calls[e])] = "apply"
          /\ \A i \in 1..Len(results) : results[i].id # e
          /\ SendResult(Result(e, TRUE, "nil"))
          /\ UNCHANGED <<statusVars, calls, pc, walkErr>>
    /\ UNCHANGED <<sideVars, cfgVars, statusClosed, callReturn, consumerVars, sigVars, rootDone, hooksDone, resultsRead, closed>>

\* The callback returning an error whatever terraform.Apply returned.
GraphApplyAlwaysErr(e) ==
    /\ op = "applyWithGraph" /\ pc[e] = "run"
    /\ SendStatus(e, "Applying")
    /\ Invoke(e, "apply")
    /\ \E err \in {"nil", "apply"} : SendResult(Result(e, TRUE, err))
    /\ ReturnErr(e)
    /\ Goto(e, "done")
    /\ UNCHANGED <<sideVars, cfgVars, statusClosed, callReturn, consumerVars, sigVars, rootDone, hooksDone, resultsRead, closed>>

GraphApply(e) ==
    /\ op = "applyWithGraph" /\ pc[e] = "run"
    /\ SendStatus(e, "Applying")
    /\ Invoke(e, "apply")
    /\ \/ /\ SendResult(Result(e, TRUE, "nil"))
          /\ UNCHANGED walkErr
       \/ /\ SendResult(Result(e, TRUE, "apply"))
          /\ ReturnErr(e)
    /\ Goto(e, "done")
    /\ UNCHANGED <<sideVars, cfgVars, statusClosed, callReturn, consumerVars, sigVars, rootDone, hooksDone, resultsRead, closed>>

\* go func() { defer close(results); err := graph.Walk(...) }()
WalkReturned == rootDone /\ \A e \in Execs : pc[e] \in {"done", "skipped"}

\* A walk goroutine that closes the status channel along with the results.
GraphCloseBoth ==
    /\ op = "applyWithGraph" /\ closed = 0
    /\ WalkReturned
    /\ closed' = closed + 1
    /\ statusClosed' = statusClosed + 1
    /\ UNCHANGED <<sideVars, cfgVars, callReturn, consumerVars, sigVars, statusVars, resultVars, walkVars, pc, hooksDone,
                   calls, resultsRead>>

GraphClose ==
    /\ op = "applyWithGraph" /\ closed = 0
    /\ WalkReturned
    /\ closed' = closed + 1
    /\ UNCHANGED <<sideVars, cfgVars, statusClosed, callReturn, consumerVars, sigVars, statusVars, resultVars, walkVars, pc, hooksDone,
                   calls, resultsRead>>

\* ------------------------------------------------------------- environment
\* signal.Notify(signalChan, SIGTERM, SIGINT): the runtime relays a signal
\* without blocking and drops it when the channel is full.
Signal ==
    /\ signalsSeen < MaxSignals
    /\ signalsSeen' = signalsSeen + 1
    /\ signalChan' = IF signalChan < SignalCap THEN signalChan + 1 ELSE signalChan
    /\ UNCHANGED <<sideVars, cfgVars, statusClosed, callReturn, consumerVars, statusVars, resultVars, walkVars, pc, hooksDone, calls,
                   resultsRead, closed, ctxDone, watcher, notices, inFlightAtCancel>>

\* for update := range status
ReadStatus ==
    /\ status > 0
    /\ status' = status - 1
    /\ UNCHANGED <<sideVars, cfgVars, statusClosed, callReturn, consumerVars, sigVars, resultVars, walkVars, pc, hooksDone, calls,
                   statusLog, resultsRead, closed>>

\* for result := range results
\* The loop body that forgets the error of the Result it received.
ReadResultDropErr ==
    /\ printReturn = "running"
    /\ resultsRead < Len(results)
    /\ resultsRead' = resultsRead + 1
    /\ UNCHANGED <<sideVars, cfgVars, statusClosed, callReturn, consumerVars, sigVars, statusVars, resultVars,
                   walkVars, pc, hooksDone, calls, closed>>

\* if result.Err() != nil { errors = multierror.Append(errors, result.Err()) }
ReadResult ==
    /\ printReturn = "running"
    /\ resultsRead < Len(results)
    /\ resultsRead' = resultsRead + 1
    /\ errors' = IF results[resultsRead + 1].err # "nil"
                 THEN Append(errors, results[resultsRead + 1].err)
                 ELSE errors
    /\ UNCHANGED <<sideVars, cfgVars, statusClosed, callReturn, printReturn, sigVars, statusVars, resultVars, walkVars, pc, hooksDone,
                   calls, closed>>

\* The range loop over results ends once the channel is closed and drained;
\* "return errors" hands back nil when nothing was appended.
PrintExecReturn ==
    /\ printReturn = "running"
    /\ closed > 0 /\ resultsRead = Len(results)
    /\ printReturn' = IF errors = <<>> THEN "nil" ELSE "errors"
    /\ UNCHANGED <<sideVars, cfgVars, statusClosed, callReturn, errors, sigVars, statusVars, resultVars,
                   walkVars, pc, hooksDone, calls, resultsRead, closed>>

\* The process exit code: 1 when the command returned an error, else 0.
ExitCode == IF printReturn = "errors" THEN 1 ELSE 0

\* Steps of the program's own goroutines.
Work ==
    \/ \E e \in Execs : ParallelStart(e)
    \/ \E e \in Execs : PlanNewSession(e)
    \/ \E e \in Execs : PlanHook(e)
    \/ \E e \in Execs : PlanInit(e)
    \/ \E e \in Execs : PlanDetach(e)
    \/ \E e \in Execs : PlanPlan(e)
    \/ \E e \in Execs : ApplyNewSession(e)
    \/ \E e \in Execs : ApplyInit(e)
    \/ \E e \in Execs : ApplyApply(e)
    \/ SignalWatcher
    \/ FlatClose
    \/ BuildGraph
    \/ WalkRoot
    \/ \E e \in Execs : WalkStart(e)
    \/ \E e \in Execs : WalkSkip(e)
    \/ \E e \in Execs : GraphNewSession(e)
    \/ \E e \in Execs : GraphHook(e)
    \/ \E e \in Execs : GraphInit(e)
    \/ \E e \in Execs : GraphApply(e)
    \/ GraphClose

Next ==
    \/ Work
    \/ Signal
    \/ ReadStatus
    \/ ReadResult
    \/ PrintExecReturn

Spec == Init /\ [][Next]_vars

\* Every goroutine that can take a step eventually takes one: hooks and
\* provisioner calls return, the scheduler starves nobody.
FairSpec == Init /\ [][Next]_vars /\ WF_vars(Work) /\ WF_vars(SignalWatcher)

\* The same program when nothing reads either channel.
NextNoConsumer ==
    \/ Work
    \/ Signal

NoConsumerSpec == Init /\ [][NextNoConsumer]_vars /\ WF_vars(Work) /\ WF_vars(SignalWatcher)

\* ------------------------------------------------- more executions than slots
\* Runs over PoolWidth + 1 independent executions without hooks, followed
\* while every started closure is still inside its first call
\* (newTerraformSession may take arbitrarily long): the steps left are the
\* scheduling decisions of the pool and of the walker, and the signal.
InitWide ==
    /\ op \in Ops
    /\ detach = FALSE
    /\ loopVarPerIteration = TRUE
    /\ boundExecutions = [i \in 1..(PoolWidth + 1) |-> [hooks |-> 0, deps |-> {}]]
    /\ pc = [e \in Execs |-> "pending"]
    /\ hooksDone = [e \in Execs |-> 0]
    /\ calls = [e \in Execs |-> <<>>]
    /\ walkErr = [e \in Execs |-> FALSE]
    /\ rootDone = FALSE
    /\ status = 0
    /\ statusLog = [e \in Execs |-> <<>>]
    /\ results = <<>>
    /\ resultsRead = 0
    /\ closed = 0
    /\ sentAfterClose = FALSE
    /\ statusClosed = 0
    /\ ctxDone = FALSE
    /\ signalChan = 0
    /\ signalsSeen = 0
    /\ watcher = IF op = "applyWithGraph" THEN "none" ELSE "waiting"
    /\ notices = 0
    /\ inFlightAtCancel = {}
    /\ callReturn = IF op = "applyWithGraph" THEN "pending" ELSE "channels"
    /\ errors = <<>>
    /\ printReturn = "running"
    /\ SideIdle

NextWide ==
    \/ \E e \in Execs : ParallelStart(e)
    \/ BuildGraph
    \/ WalkRoot
    \/ \E e \in Execs : WalkStart(e)
    \/ SignalWatcher
    \/ Signal

WideSpec == InitWide /\ [][NextWide]_vars

\* ------------------------------------------------------------ SessionRepo
MaxSessionIDs == 3
MaxRepoCalls == 4
SessionIDs == 1..MaxSessionIDs

\* No run is in progress.
RunIdle ==
    /\ op = "plan" /\ detach = FALSE /\ loopVarPerIteration = TRUE
    /\ boundExecutions = <<>>
    /\ pc = <<>> /\ hooksDone = <<>> /\ calls = <<>> /\ walkErr = <<>>
    /\ rootDone = FALSE
    /\ status = 0 /\ statusLog = <<>> /\ statusClosed = 0
    /\ results = <<>> /\ resultsRead = 0 /\ closed = 0 /\ sentAfterClose = FALSE
    /\ ctxDone = FALSE /\ signalChan = 0 /\ signalsSeen = 0
    /\ watcher = "none" /\ notices = 0 /\ inFlightAtCancel = {}
    /\ callReturn = "pending" /\ errors = <<>> /\ printReturn = "running"

\* os.Mkdir(sessionPath, 0755): fails when the directory exists, and may
\* fail for a reason outside the program.
Mkdir(id, osOk) == osOk /\ id \notin sessionDirs

\* NewSession: id := r.generateID(); Mkdir; return the session or the error.
\* It leaves r.current alone.
NewSession(id, osOk) ==
    /\ sessionDirs' = IF Mkdir(id, osOk) THEN sessionDirs \cup {id} ELSE sessionDirs
    /\ lastSession' = IF Mkdir(id, osOk) THEN id ELSE 0

\* A direct call of the exported NewSession.
CallNewSession ==
    /\ repoCalls < MaxRepoCalls
    /\ repoCalls' = repoCalls + 1
    /\ \E id \in SessionIDs, osOk \in BOOLEAN :
         /\ NewSession(id, osOk)
         /\ newSessionOk' = IF Mkdir(id, osOk) THEN newSessionOk + 1 ELSE newSessionOk
    /\ UNCHANGED <<runVars, zipVars, sessVars, cartVars, expVars, current, currentOk>>

\* A Current that makes a new session on every call.
CallCurrentAlwaysNew ==
    /\ repoCalls < MaxRepoCalls
    /\ repoCalls' = repoCalls + 1
    /\ \E id \in SessionIDs, osOk \in BOOLEAN :
         /\ NewSession(id, osOk)
         /\ current' = IF Mkdir(id, osOk) THEN id ELSE current
         /\ currentOk' = IF Mkdir(id, osOk) THEN currentOk + 1 ELSE currentOk
    /\ UNCHANGED <<runVars, zipVars, sessVars, cartVars, expVars, newSessionOk>>

\* Current: if r.current != nil { return r.current, nil }; otherwise
\* NewSession, and on success r.current = session.
CallCurrent ==
    /\ repoCalls < MaxRepoCalls
    /\ repoCalls' = repoCalls + 1
    /\ IF current # 0
       THEN /\ lastSession' = current
            /\ currentOk' = currentOk + 1
            /\ UNCHANGED <<current, sessionDirs>>
       ELSE \E id \in SessionIDs, osOk \in BOOLEAN :
              /\ NewSession(id, osOk)
              /\ current' = IF Mkdir(id, osOk) THEN id ELSE current
              /\ currentOk' = IF Mkdir(id, osOk) THEN currentOk + 1 ELSE currentOk
    /\ UNCHANGED <<runVars, zipVars, sessVars, cartVars, expVars, newSessionOk>>

RepoInit == RunIdle /\ RepoIdle /\ CartIdle /\ ExpandIdle /\ ZipIdle /\ SessIdle

RepoNext ==
    \/ CallCurrent
    \/ CallNewSession

RepoSpec == RepoInit /\ [][RepoNext]_vars

\* --------------------------------------------------------------- cartesian
MaxLists == 3
MaxListLen == 3
Values == 1..MaxListLen

\* The lists of at most MaxListLen different values, in every order.
ValueLists ==
    UNION {{l \in [1..n -> Values] : \A i, j \in 1..n : i # j => l[i] # l[j]} :
             n \in 0..MaxListLen}

\* A product built with the first list varying fastest.
RECURSIVE cartesianLeftFastest(_)
cartesianLeftFastest(lists) ==
    IF lists = <<>> THEN << <<>> >>
    ELSE LET xs == Head(lists)
             tails == cartesianLeftFastest(Tail(lists))
         IN [k \in 1..(Len(xs) * Len(tails)) |->
               <<xs[((k - 1) % Len(xs)) + 1]>> \o tails[((k - 1) \div Len(xs)) + 1]]

\* cartesian([]) = [[]];
\* cartesian(xs::rest) = { [x, ...tail] | x in xs, tail in cartesian(rest) },
\* emitted for xs[0] first, then xs[1], and so on.
RECURSIVE cartesian(_)
cartesian(lists) ==
    IF lists = <<>> THEN << <<>> >>
    ELSE LET xs == Head(lists)
             tails == cartesian(Tail(lists))
         IN [k \in 1..(Len(xs) * Len(tails)) |->
               <<xs[((k - 1) \div Len(tails)) + 1]>> \o tails[((k - 1) % Len(tails)) + 1]]

CartesianInit ==
    /\ RunIdle /\ RepoIdle /\ ExpandIdle /\ ZipIdle /\ SessIdle
    /\ params \in UNION {[1..n -> ValueLists] : n \in 0..MaxLists}
    /\ res = <<>>
    /\ cartesianReturned = FALSE

\* res := cartesian(params...)
CallCartesian ==
    /\ ~cartesianReturned
    /\ res' = cartesian(params)
    /\ cartesianReturned' = TRUE
    /\ UNCHANGED <<runVars, zipVars, sessVars, repoVars, expVars, params>>

CartesianNext == CallCartesian

CartesianSpec == CartesianInit /\ [][CartesianNext]_vars

\* ------------------------------------------------- resolver and expander
MaxModules == 2
ModuleNamePool == <<"app", "users">>
VarNames == {"aws_region", "environment"}
UserValuePool == {"dev", "east1"}

\* The declarations a variable can have: a whitelist or not, a default or
\* not ("" for none), contributing to the id or not.
DeclKinds ==
    { [values |-> <<"dev", "prod">>, default |-> "", filter |-> TRUE],
      [values |-> <<"dev", "prod">>, default |-> "", filter |-> FALSE],
      [values |-> <<>>, default |-> "", filter |-> TRUE],
      [values |-> <<>>, default |-> "dev", filter |-> FALSE] }

VariableDecl(name, kind) ==
    [name |-> name, values |-> kind.values, default |-> kind.default,
     filter |-> kind.filter]

\* Ordered lists of declarations with different names.
NameLists ==
    UNION {{l \in [1..n -> VarNames] : \A i, j \in 1..n : i # j => l[i] # l[j]} :
             n \in 0..Cardinality(VarNames)}
DeclLists ==
    UNION {{[i \in 1..Len(l) |-> VariableDecl(l[i], k[i])] : k \in [1..Len(l) -> DeclKinds]} :
             l \in NameLists}

Range(f) == {f[x] : x \in DOMAIN f}
Declared(m) == {m.variables[i].name : i \in 1..Len(m.variables)}
Without(values, v) == [n \in (DOMAIN values) \ {v} |-> values[n]]

\* resolve, rules 1 to 5 and the filter rule: the candidate values of one
\* declared variable.
candidates(d, values, filters) ==
    IF d.name \in DOMAIN values
    THEN IF d.name \in filters /\ d.values # <<>>
         THEN SelectSeq(d.values, LAMBDA x : x = values[d.name])
         ELSE <<values[d.name]>>
    ELSE IF d.values # <<>> THEN d.values
    ELSE IF d.default # "" THEN <<d.default>>
    ELSE <<>>

\* The error resolve fails with, "nil" for none.
resolveErr(m, values, filters) ==
    IF \E i \in 1..Len(m.variables) :
         LET d == m.variables[i]
         IN /\ d.name \in DOMAIN values /\ d.name \notin filters
            /\ d.values # <<>> /\ values[d.name] \notin Range(d.values)
    THEN "UnknownValue"
    ELSE IF \E i \in 1..Len(m.variables) :
              LET d == m.variables[i]
              IN d.name \notin DOMAIN values /\ d.values = <<>> /\ d.default = ""
         THEN "MissingValue"
         ELSE "nil"

resolve(m, values, filters) ==
    [i \in 1..Len(m.variables) |-> candidates(m.variables[i], values, filters)]

\* Step 3: the assignment keeps to the whitelists.
withinWhitelist(m, t) ==
    \A i \in 1..Len(m.variables) :
        m.variables[i].values # <<>> => t[i] \in Range(m.variables[i].values)

\* Step 4: the module name and the values of the identity variables in
\* declaration order, the parts that are joined by "-".
bindID(m, t) ==
    LET idx == [i \in 1..Len(m.variables) |-> i]
        identity == SelectSeq(idx, LAMBDA i : m.variables[i].filter)
    IN <<m.name>> \o [k \in 1..Len(identity) |-> t[identity[k]]]

\* A provisioner call that is given every user value.
terraformVarsAllUser(m, t, values) ==
    {<<m.variables[i].name, t[i]>> : i \in 1..Len(m.variables)}
        \cup {<<n, values[n]>> : n \in DOMAIN values}

\* The "-var name=value" arguments of the execution's provisioner calls:
\* its variable assignment.
terraformVars(m, t, values) ==
    {<<m.variables[i].name, t[i]>> : i \in 1..Len(m.variables)}

\* A filter that pins declared variables and keeps the other modules.
passesFiltersUndeclared(m, filters) == TRUE

\* A variable marked as a filter keeps only the modules that declare it.
passesFilters(m, filters) == filters \subseteq Declared(m)

\* A module-name restriction that is never applied.
listedAlways(m, names) == TRUE

\* Step 5: ModuleNames, when given, lists the modules to run.
listed(m, names) == names = {} \/ m.name \in names

\* Steps 2 to 4 for one module: the bound executions in emission order,
\* the first of each id retained.
moduleExecutions(m, values, filters, names) ==
    IF ~passesFilters(m, filters) \/ ~listed(m, names) THEN <<>>
    ELSE LET all == cartesian(resolve(m, values, filters))
             kept == SelectSeq(all, LAMBDA t : withinWhitelist(m, t))
             firsts == {k \in 1..Len(kept) :
                          \A j \in 1..(k - 1) : bindID(m, kept[j]) # bindID(m, kept[k])}
             idx == [k \in 1..Len(kept) |-> k]
             order == SelectSeq(idx, LAMBDA k : k \in firsts)
         IN [k \in 1..Len(order) |->
               [id |-> bindID(m, kept[order[k]]),
                module |-> m.name,
                assignment |-> kept[order[k]],
                vars |-> terraformVars(m, kept[order[k]], values)]]

RECURSIVE expandFrom(_, _, _, _)
expandFrom(modules, values, filters, names) ==
    IF modules = <<>> THEN <<>>
    ELSE moduleExecutions(Head(modules), values, filters, names)
           \o expandFrom(Tail(modules), values, filters, names)

\* The first module whose resolution fails decides the error.
RECURSIVE expandErr(_, _, _)
expandErr(modules, values, filters) ==
    IF modules = <<>> THEN "nil"
    ELSE IF resolveErr(Head(modules), values, filters) # "nil"
         THEN resolveErr(Head(modules), values, filters)
         ELSE expandErr(Tail(modules), values, filters)

ExpandInit ==
    /\ RunIdle /\ RepoIdle /\ CartIdle /\ ZipIdle /\ SessIdle
    /\ \E n \in 1..MaxModules : \E v \in [1..n -> DeclLists] :
         project = [i \in 1..n |-> [name |-> ModuleNamePool[i], variables |-> v[i]]]
    /\ userValues \in UNION {[S -> UserValuePool] : S \in SUBSET VarNames}
    /\ userFilters \in SUBSET (DOMAIN userValues)
    /\ moduleNames \in {{}} \cup {{ModuleNamePool[i]} : i \in 1..Len(project)}
    /\ executionSet = <<>>
    /\ expandReturn = "pending"

\* expand(project, userVars): the execution set, or the resolver's error.
CallExpand ==
    /\ expandReturn = "pending"
    /\ LET err == expandErr(project, userValues, userFilters)
       IN /\ expandReturn' = IF err = "nil" THEN "ok" ELSE err
          /\ executionSet' = IF err = "nil"
                             THEN expandFrom(project, userValues, userFilters, moduleNames)
                             ELSE <<>>
    /\ UNCHANGED <<runVars, zipVars, sessVars, repoVars, cartVars, project, userValues, userFilters,
                   moduleNames>>

ExpandNext == CallExpand

ExpandSpec == ExpandInit /\ [][ExpandNext]_vars

\* ------------------------------------------------------------------- unzip
MaxEntries == 2
MaxNameLen == 3
Components == {"a", "dest", ".."}
DestDirs == {<<"dest">>, <<"dest", "a">>}

\* Entry names: up to MaxNameLen path components; an entry is a directory
\* or a file.
EntryNames == UNION {[1..n -> Components] : n \in 1..MaxNameLen}
Entries == [name : EntryNames, isDir : BOOLEAN]

\* filepath.Clean on an absolute path, component by component: ".." drops
\* the component before it and is dropped itself at the root.
RECURSIVE Clean(_, _)
Clean(stack, comps) ==
    IF comps = <<>> THEN stack
    ELSE Clean(IF Head(comps) = ".."
               THEN (IF stack = <<>> THEN <<>> ELSE SubSeq(stack, 1, Len(stack) - 1))
               ELSE Append(stack, Head(comps)),
               Tail(comps))

\* filepath.Join(destDir, f.Name): joins and cleans.
Join(dir, name) == Clean(<<>>, dir \o name)

\* A check that lets every path through.
HasPrefixUnchecked(path, dir) == TRUE

\* strings.HasPrefix(path, filepath.Clean(destDir) + separator): the path
\* lies strictly below the directory.
HasPrefix(path, dir) ==
    LET d == Clean(<<>>, dir)
    IN Len(path) > Len(d) /\ SubSeq(path, 1, Len(d)) = d

\* The directories os.MkdirAll(path) may have to make: path and its
\* ancestors, apart from the destination directory and what is above it,
\* which exist.
MkdirAllCreates(path) ==
    {SubSeq(path, 1, n) : n \in 1..Len(path)}
        \ {SubSeq(destDir, 1, n) : n \in 0..Len(destDir)}
Dir(path) == SubSeq(path, 1, Len(path) - 1)

UnzipInit ==
    /\ RunIdle /\ RepoIdle /\ CartIdle /\ ExpandIdle /\ SessIdle
    /\ archive \in UNION {[1..n -> Entries] : n \in 0..MaxEntries}
    /\ destDir \in DestDirs
    /\ entryIndex = 0
    /\ unzipReturn = "running"
    /\ written = {}
    /\ incomplete = {}

\* r, err := zip.OpenReader(zipfilePath); if err != nil { return err }
OpenReader ==
    /\ unzipReturn = "running" /\ entryIndex = 0
    /\ \/ /\ unzipReturn' = "openReader"
          /\ UNCHANGED entryIndex
       \/ /\ entryIndex' = 1
          /\ UNCHANGED unzipReturn
    /\ UNCHANGED <<runVars, repoVars, cartVars, expVars, sessVars, archive, destDir,
                   written, incomplete>>

ReturnError(err) == unzipReturn' = err /\ UNCHANGED entryIndex
NextEntry == entryIndex' = entryIndex + 1 /\ UNCHANGED unzipReturn

\* One call of processFileContents from the loop of unzip; every call to
\* the zip reader or the file system may fail.
ProcessFileContents ==
    /\ unzipReturn = "running" /\ entryIndex \in 1..Len(archive)
    /\ LET f == archive[entryIndex]
           path == Join(destDir, f.name)
       IN \/ /\ ReturnError("open")                        \* f.Open()
             /\ UNCHANGED <<written, incomplete>>
          \/ /\ ~HasPrefix(path, destDir)
             /\ ReturnError("illegal file path in zip")
             /\ UNCHANGED <<written, incomplete>>
          \/ /\ HasPrefix(path, destDir) /\ f.isDir
             /\ \/ /\ \E made \in SUBSET MkdirAllCreates(path) :
                        /\ made # MkdirAllCreates(path)
                        /\ written' = written \cup made
                   /\ ReturnError("mkdirAll")
                \/ /\ written' = written \cup MkdirAllCreates(path)
                   /\ NextEntry
             /\ UNCHANGED incomplete
          \/ /\ HasPrefix(path, destDir) /\ ~f.isDir
             /\ \/ /\ \E made \in SUBSET MkdirAllCreates(Dir(path)) :
                        /\ made # MkdirAllCreates(Dir(path))
                        /\ written' = written \cup made
                   /\ ReturnError("mkdirAll")
                   /\ UNCHANGED incomplete
                \/ /\ written' = written \cup MkdirAllCreates(Dir(path))
                   /\ ReturnError("openFile")
                   /\ UNCHANGED incomplete
                \/ /\ written' = written \cup MkdirAllCreates(path)
                   \* _, err = io.Copy(out, fh); err = out.Close()
                   /\ \E copyOk \in BOOLEAN :
                        incomplete' = IF copyOk THEN incomplete \ {path}
                                      ELSE incomplete \cup {path}
                   /\ \/ ReturnError("close")
                      \/ NextEntry
    /\ UNCHANGED <<runVars, repoVars, cartVars, expVars, sessVars, archive, destDir>>

\* The loop over r.File has ended: return nil.
UnzipReturnNil ==
    /\ unzipReturn = "running" /\ entryIndex = Len(archive) + 1
    /\ unzipReturn' = "nil"
    /\ UNCHANGED <<runVars, repoVars, cartVars, expVars, sessVars, archive, destDir,
                   entryIndex, written, incomplete>>

UnzipNext ==
    \/ OpenReader
    \/ ProcessFileContents
    \/ UnzipReturnNil

UnzipSpec == UnzipInit /\ [][UnzipNext]_vars

\* ------------------------------------- several flat runs on one Session
MaxRuns == 3
MaxSessionSignals == 2
Runs == 1..MaxRuns

SessionInit ==
    /\ RunIdle /\ RepoIdle /\ CartIdle /\ ExpandIdle /\ ZipIdle
    /\ runState = [r \in Runs |-> "idle"]
    /\ runWatcher = [r \in Runs |-> "none"]
    /\ runCancelled = [r \in Runs |-> FALSE]
    /\ runNotices = [r \in Runs |-> 0]
    /\ sessionSignalChan = 0
    /\ sessionSignals = 0

\* A call of plan or apply on the Session: ctx, cancel :=
\* context.WithCancel(...), then go func() { <-session.signalChan ... }().
FlatCall(r) ==
    /\ runState[r] = "idle"
    /\ runState' = [runState EXCEPT ![r] = "active"]
    /\ runWatcher' = [runWatcher EXCEPT ![r] = "waiting"]
    /\ UNCHANGED <<runVars, repoVars, cartVars, expVars, zipVars, runCancelled,
                   runNotices, sessionSignalChan, sessionSignals>>

\* The goroutine of run r receives from the Session's channel, prints the
\* notice and cancels the token of its own call. Nothing ends the goroutine
\* when its run is over.
RunSignalWatcher(r) ==
    /\ runWatcher[r] = "waiting"
    /\ sessionSignalChan > 0
    /\ sessionSignalChan' = sessionSignalChan - 1
    /\ runNotices' = [runNotices EXCEPT ![r] = @ + 1]
    /\ runCancelled' = [runCancelled EXCEPT ![r] = TRUE]
    /\ runWatcher' = [runWatcher EXCEPT ![r] = "done"]
    /\ UNCHANGED <<runVars, repoVars, cartVars, expVars, zipVars, runState,
                   sessionSignals>>

\* The executions of run r have all finished: utils.Parallel returns and
\* the results channel is closed.
FlatReturn(r) ==
    /\ runState[r] = "active"
    /\ runState' = [runState EXCEPT ![r] = "returned"]
    /\ UNCHANGED <<runVars, repoVars, cartVars, expVars, zipVars, runWatcher,
                   runCancelled, runNotices, sessionSignalChan, sessionSignals>>

\* signal.Notify(signalChan, SIGTERM, SIGINT) on a channel of capacity 1.
SessionSignal ==
    /\ sessionSignals < MaxSessionSignals
    /\ sessionSignals' = sessionSignals + 1
    /\ sessionSignalChan' = IF sessionSignalChan < SignalCap
                            THEN sessionSignalChan + 1 ELSE sessionSignalChan
    /\ UNCHANGED <<runVars, repoVars, cartVars, expVars, zipVars, runState,
                   runWatcher, runCancelled, runNotices>>

SessionNext ==
    \/ \E r \in Runs : FlatCall(r)
    \/ \E r \in Runs : RunSignalWatcher(r)
    \/ \E r \in Runs : FlatReturn(r)
    \/ SessionSignal

\* A goroutine blocked on a channel that holds a value is scheduled.
SessionSpec ==
    /\ SessionInit
    /\ [][SessionNext]_vars
    /\ WF_vars(\E r \in Runs : RunSignalWatcher(r))

\* ------------------------------------------------------------------ claims
ResultsOf(e) == {i \in 1..Len(results) : results[i].id = e}
HasResult(e) == ResultsOf(e) # {}
ErrResult(e) == \E i \in ResultsOf(e) : results[i].err # "nil"
CountCalls(e, call) == Cardinality({i \in 1..Len(calls[e]) : calls[e][i] = call})
Untouched(e) == calls[e] = <<>> /\ statusLog[e] = <<>> /\ ~HasResult(e)

Ancestors(e) == Reach(DepsOf, Deps(e), numberOfExecutions)

RECURSIVE SumLen(_, _)
SumLen(f, S) == IF S = {} THEN 0
                ELSE LET x == CHOOSE y \in S : TRUE IN Len(f[x]) + SumLen(f, S \ {x})

\* C1: on every run path and in every interleaving, cancelled or not, each
\* Result on the result channel carries the id of an input execution and no
\* id is delivered twice, so at most N Results are delivered.
C1_ResultIdsAreDistinctInputs ==
    /\ \A i \in 1..Len(results) : results[i].id \in Execs
    /\ \A i, j \in 1..Len(results) : results[i].id = results[j].id => i = j
    /\ Len(results) <= numberOfExecutions

C1_Witness ==
    /\ op = "plan" /\ ~loopVarPerIteration
    /\ numberOfExecutions = 2 /\ Len(results) = 2 /\ closed = 1

\* C2: in flat mode without cancellation, when the result channel is closed
\* every input execution has delivered exactly one Result, whatever steps
\* of its siblings failed.
C2_FlatDeliversAll ==
    (Flat /\ closed >= 1 /\ ~ctxDone) =>
        \A e \in Execs : Cardinality(ResultsOf(e)) = 1

C2_Witness ==
    /\ Flat /\ closed = 1 /\ ~ctxDone
    /\ numberOfExecutions = 2 /\ Len(results) = 2
    /\ results[1].err = "init" /\ results[2].err = "nil"

\* C3: under the graph walk, a Result of an execution is preceded on the
\* channel by the Result of each execution it depends on.
C3_DependencyResultFirst ==
    op = "applyWithGraph" =>
        \A j \in 1..Len(results) :
            \A d \in Deps(results[j].id) :
                \E i \in 1..(j - 1) : results[i].id = d

C3_Witness ==
    /\ op = "applyWithGraph"
    /\ Len(results) = 3
    /\ Deps(results[3].id) = {results[1].id, results[2].id}

\* C4: under the graph walk, once the callback of an execution has reported
\* an error, none of its direct or transitive dependents is invoked: no
\* call, no status line, no Result.
C4_DependentsOfFailedSkipped ==
    op = "applyWithGraph" =>
        \A b \in Execs : \A a \in Ancestors(b) : ErrResult(a) => Untouched(b)

C4_Witness ==
    /\ op = "applyWithGraph" /\ closed = 1
    /\ \E a, b, c \in Execs :
         /\ a \in Deps(b) /\ b \in Deps(c) /\ a \notin Deps(c)
         /\ ErrResult(a) /\ pc[b] = "skipped" /\ pc[c] = "skipped"

\* C5: under the graph walk, when the result channel is closed every
\* execution without a failed (transitive) dependency has been invoked once
\* and has delivered one Result, whose error is that of its own last step.
C5_UnaffectedRunOnce ==
    (op = "applyWithGraph" /\ closed >= 1) =>
        \A e \in Execs :
            (\A a \in Ancestors(e) : ~ErrResult(a)) =>
                /\ CountCalls(e, "newSession") = 1
                /\ Cardinality(ResultsOf(e)) = 1
                /\ \A i \in ResultsOf(e) :
                     /\ results[i].err # "nil" => results[i].err = calls[e][Len(calls[e])]
                     /\ results[i].err = "nil" => calls[e][Len(calls[e])] = "apply"

C5_Witness ==
    /\ op = "applyWithGraph" /\ closed = 1
    /\ \E a, b, c \in Execs :
         /\ a \in Deps(b) /\ Ancestors(c) = {}
         /\ ErrResult(a) /\ pc[b] = "skipped"
         /\ HasResult(c) /\ ~ErrResult(c)

\* C6: the result channel is closed at most once, nothing is sent on it
\* after the close, and at the close no closure is in flight, also when the
\* token was cancelled while closures were running.
C6_ClosedOnceAfterLastSend ==
    /\ closed <= 1
    /\ ~sentAfterClose
    /\ closed = 1 => InFlight = {}

C6_Witness ==
    /\ closed = 1 /\ ctxDone
    /\ inFlightAtCancel # {}
    /\ \A e \in inFlightAtCancel : HasResult(e)
    /\ \E e \in Execs : pc[e] = "pending"

StatusSendBlocked(e) == pc[e] \in {"hook", "init", "detach", "run"} /\ status = StatusCap

\* C7: no status send blocks when nothing reads the status channel: the
\* status lines of one run never outnumber the capacity 10 * N, and no
\* closure stands at a status send with the buffer full.
C7_StatusNeverBlocks ==
    /\ SumLen(statusLog, Execs) <= StatusCap
    /\ \A e \in Execs : ~StatusSendBlocked(e)

\* C8: with no consumer on either channel and every call returning, a
\* call that returned channels eventually closes the result channel.
C8_EventuallyClosed == <>(callReturn = "error" \/ closed = 1)

C9_State ==
    Flat =>
        /\ ctxDone => \A e \in Execs : pc[e] = "pending" => Untouched(e)
        /\ closed = 1 => \A e \in inFlightAtCancel : Cardinality(ResultsOf(e)) = 1
C9_Step == ctxDone => \A e \in Execs : pc[e] = "pending" => pc'[e] = "pending"

\* C9: in flat mode a closure that has not started when the token is
\* cancelled never starts: it stays untouched; the closures in flight at
\* the cancellation have each delivered exactly one Result when the result
\* channel is closed.
C9_NoStartAfterCancel == []C9_State /\ [][C9_Step]_vars

C9_Witness ==
    /\ Flat /\ closed = 1 /\ ctxDone
    /\ inFlightAtCancel # {}
    /\ \E e \in Execs : pc[e] = "pending"

\* C10: on every run path, a signal received during the run leads to the
\* notice being printed and the run's token being cancelled.
C10_SignalCancels ==
    (signalsSeen > 0 /\ callReturn = "channels") ~> (notices > 0 /\ ctxDone)

\* C11: at every moment of every run, flat or graph-walked, at most 10
\* closures are executing.
C11_AtMostPoolWidthInFlight == Cardinality(InFlight) <= PoolWidth

SomeErr == \E i \in 1..Len(results) : results[i].err # "nil"

\* C12: once printExecStatus has returned, the result channel is closed and
\* every Result sent was received; it returned an error exactly when some
\* Result carries one, and the exit code is 1 in that case and 0 otherwise.
C12_ExitCodeFromResults ==
    printReturn # "running" =>
        /\ closed > 0 /\ resultsRead = Len(results)
        /\ (printReturn = "errors") <=> SomeErr
        /\ ExitCode = IF SomeErr THEN 1 ELSE 0

C12_Witness ==
    /\ printReturn = "errors" /\ ExitCode = 1
    /\ Len(results) = 2 /\ Len(errors) = 1
    /\ results[1].err = "nil"

\* C13: whenever printExecStatus returns on a run whose token was cancelled
\* by a signal, the exit code is 1.
C13_CancelledExitsOne ==
    [][(printReturn = "running" /\ printReturn' # "running" /\ ctxDone)
          => ExitCode' = 1]_vars

PhaseRank(line) ==
    CASE line = "Running PreModuleRun hook" -> 1
      [] line = "Initializing" -> 2
      [] line = "Disconnecting remote state" -> 3
      [] line \in {"Planning", "Applying"} -> 4

Lines(log) == {log[i] : i \in 1..Len(log)}

\* Hook lines first, then each later phase's line at most once and in
\* order; a phase's line only when the lines of the phases before it on
\* this path were sent.
InPhaseOrder(log) ==
    /\ \A i, j \in 1..Len(log) :
         i < j => /\ PhaseRank(log[i]) <= PhaseRank(log[j])
                  /\ (PhaseRank(log[j]) > 1 => PhaseRank(log[i]) < PhaseRank(log[j]))
    /\ "Disconnecting remote state" \in Lines(log) =>
         /\ op = "plan" /\ detach
         /\ "Initializing" \in Lines(log)
    /\ "Planning" \in Lines(log) =>
         /\ op = "plan" /\ "Initializing" \in Lines(log)
         /\ (detach => "Disconnecting remote state" \in Lines(log))
    /\ "Applying" \in Lines(log) =>
         /\ op # "plan" /\ "Initializing" \in Lines(log)

C14_State == \A e \in Execs : InPhaseOrder(statusLog[e])
C14_Step == \A e \in Execs : HasResult(e) => statusLog'[e] = statusLog[e]

\* C14: the status lines of each execution are sent in phase order (hook
\* lines, Initializing, Disconnecting only on the detach plan path, then
\* Planning or Applying), and no status line of an execution is sent once
\* its Result has been sent.
C14_StatusInPhaseOrder == []C14_State /\ [][C14_Step]_vars

C14_Witness ==
    \E e \in Execs :
        /\ statusLog[e] = <<"Running PreModuleRun hook", "Initializing",
                            "Disconnecting remote state", "Planning">>
        /\ HasResult(e)

\* C15 as stated: every call that got a session made one new session
\* directory, so the repository holds one directory per such call.
C15_OneDirPerCall == Cardinality(sessionDirs) = currentOk + newSessionOk

\* C15: the first call of Current that succeeds makes one session
\* directory and records the session; every later call returns that same
\* session and makes no directory, so however many calls of Current
\* succeeded they account for exactly one directory.
C15_OneDirPerRepo ==
    /\ (current # 0) <=> (currentOk > 0)
    /\ current # 0 => current \in sessionDirs
    /\ Cardinality(sessionDirs) = (IF currentOk > 0 THEN 1 ELSE 0) + newSessionOk

C15_Witness ==
    /\ currentOk = 3 /\ newSessionOk = 0
    /\ lastSession = current /\ sessionDirs = {current}

\* C16: when the dependency graph of an applyWithGraph call has a cycle,
\* the call never hands out channels and nothing is started: no closure
\* has left its initial position or made a call, no status line or Result
\* exists, nothing is closed, and neither the walk goroutine nor a signal
\* goroutine is running.
C16_GraphErrorStartsNothing ==
    (op = "applyWithGraph" /\ Cyclic(DepsOf)) =>
        /\ callReturn \in {"pending", "error"}
        /\ \A e \in Execs : pc[e] = "pending" /\ Untouched(e)
        /\ ~rootDone /\ watcher = "none"
        /\ status = 0 /\ results = <<>> /\ closed = 0

C16_Witness ==
    /\ op = "applyWithGraph" /\ callReturn = "error"
    /\ \E e \in Execs : Deps(e) = {}
    /\ \E e \in Execs : e \in Ancestors(e)

RECURSIVE ProductOfLens(_)
ProductOfLens(lists) ==
    IF lists = <<>> THEN 1 ELSE Len(Head(lists)) * ProductOfLens(Tail(lists))

\* Where the value x stands in the list xs.
PositionIn(xs, x) == CHOOSE i \in 1..Len(xs) : xs[i] = x
Positions(t) == [p \in 1..Len(params) |-> PositionIn(params[p], t[p])]
LexLess(a, b) ==
    \E p \in 1..Len(a) : a[p] < b[p] /\ \A q \in 1..(p - 1) : a[q] = b[q]
OneFromEach ==
    {t \in [1..Len(params) -> Values] :
        \A p \in 1..Len(params) : \E i \in 1..Len(params[p]) : params[p][i] = t[p]}

\* C17: the tuples returned are exactly the tuples taking one element from
\* each list, each once, ordered lexicographically by the elements'
\* positions with the first list most significant; there are as many as
\* the product of the list lengths, and for no lists the result is the
\* single empty tuple.
C17_CartesianLexOrder ==
    cartesianReturned =>
        /\ Len(res) = ProductOfLens(params)
        /\ {res[k] : k \in 1..Len(res)} = OneFromEach
        /\ \A k, l \in 1..Len(res) :
             k < l => LexLess(Positions(res[k]), Positions(res[l]))
        /\ (params = <<>> => res = << <<>> >>)

C17_Witness ==
    /\ cartesianReturned
    /\ params = << <<1, 2, 3>>, <<3, 1>>, <<2, 3>> >>
    /\ Len(res) = 12
    /\ res[1] = <<1, 3, 2>> /\ res[2] = <<1, 3, 3>> /\ res[3] = <<1, 1, 2>>
    /\ res[12] = <<3, 1, 3>>

Modules == Range(project)
ModuleOf(name) == CHOOSE m \in Modules : m.name = name
Executions == Range(executionSet)
AllValues == UserValuePool \cup {"dev", "prod"}
IndexOf(m, v) == CHOOSE i \in 1..Len(m.variables) : m.variables[i].name = v
AssignedValue(b, v) == b.assignment[IndexOf(ModuleOf(b.module), v)]

\* The assignments a module admits under the user's values: a user value
\* where one is given, a whitelisted value where a whitelist exists, the
\* default otherwise.
ValidAssignments(m) ==
    {t \in [1..Len(m.variables) -> AllValues] :
        \A i \in 1..Len(m.variables) :
            LET d == m.variables[i]
            IN /\ d.name \in DOMAIN userValues => t[i] = userValues[d.name]
               /\ d.values # <<>> => t[i] \in Range(d.values)
               /\ (d.name \notin DOMAIN userValues /\ d.values = <<>>) => t[i] = d.default}

\* C18: when expansion succeeds and v is marked as a filter with value x,
\* every execution produced belongs to a module that declares v and has
\* v = x, and every assignment with v = x of a module that declares the
\* filter variables (and is not excluded by name) has its execution in the
\* set; modules that do not declare v contribute nothing.
C18_FilterKeepsExactlyMatching ==
    expandReturn = "ok" =>
        \A v \in userFilters :
            /\ \A b \in Executions :
                 /\ v \in Declared(ModuleOf(b.module))
                 /\ AssignedValue(b, v) = userValues[v]
            /\ \A m \in Modules :
                 (userFilters \subseteq Declared(m)
                    /\ (moduleNames = {} \/ m.name \in moduleNames)) =>
                 \A t \in ValidAssignments(m) :
                     \E b \in Executions : b.id = bindID(m, t)

C18_Witness ==
    /\ expandReturn = "ok" /\ moduleNames = {}
    /\ userFilters = {"environment"} /\ userValues["environment"] = "dev"
    /\ Len(project) = 2
    /\ "environment" \in Declared(project[1])
    /\ "environment" \notin Declared(project[2])
    /\ Len(executionSet) = 1
    /\ Len(expandFrom(project, Without(userValues, "environment"), {}, {})) = 3

\* C19: when expansion succeeds under a restriction to module names, the
\* execution set is the unrestricted execution set with the executions of
\* the unlisted modules removed, in the same order: every execution of a
\* listed module is kept and no other.
C19_ModuleNamesSelect ==
    (expandReturn = "ok" /\ moduleNames # {}) =>
        executionSet = SelectSeq(expandFrom(project, userValues, userFilters, {}),
                                 LAMBDA b : b.module \in moduleNames)

C19_Witness ==
    /\ expandReturn = "ok" /\ moduleNames = {"users"}
    /\ Len(executionSet) = 2
    /\ Len(expandFrom(project, userValues, userFilters, {})) = 4

VarNamesPassed(b) == {pair[1] : pair \in b.vars}

\* What a module contributes to the expansion: its resolution error and
\* its executions.
ModuleOutcome(m, values, filters) ==
    <<resolveErr(m, values, filters), moduleExecutions(m, values, filters, moduleNames)>>

PassedIffDeclared ==
    \A b \in Executions : \A v \in DOMAIN userValues :
        /\ v \in VarNamesPassed(b) <=> v \in Declared(ModuleOf(b.module))
        /\ v \in VarNamesPassed(b) =>
             \A pair \in b.vars : pair[1] = v => pair[2] = userValues[v]

\* C20 as stated: a user variable is passed to an execution exactly when
\* its module declares it, and for every user variable, marked as a filter
\* or not, a module that does not declare it resolves and expands as if
\* the user had not given the variable.
C20_UndeclaredVarIgnored ==
    expandReturn # "pending" =>
        /\ PassedIffDeclared
        /\ \A m \in Modules : \A v \in (DOMAIN userValues) \ Declared(m) :
             ModuleOutcome(m, userValues, userFilters)
               = ModuleOutcome(m, Without(userValues, v), userFilters \ {v})

\* C20: a user variable is passed to an execution exactly when its module
\* declares it, and a user variable that is not marked as a filter leaves
\* a module that does not declare it with the resolution outcome and the
\* executions it has without that variable.
C20_UndeclaredUnfilteredVarIgnored ==
    expandReturn # "pending" =>
        /\ PassedIffDeclared
        /\ \A m \in Modules :
             \A v \in (DOMAIN userValues) \ (Declared(m) \cup userFilters) :
                 ModuleOutcome(m, userValues, userFilters)
                   = ModuleOutcome(m, Without(userValues, v), userFilters)

C20_Witness ==
    /\ expandReturn = "ok"
    /\ "aws_region" \in (DOMAIN userValues) \ userFilters
    /\ \E b1, b2 \in Executions :
         /\ <<"aws_region", "east1">> \in b1.vars
         /\ "aws_region" \notin Declared(ModuleOf(b2.module))
         /\ b2.vars = {}

IsPrefix(a, b) == Len(a) <= Len(b) /\ SubSeq(b, 1, Len(a)) = a
CallsMade(e) == {calls[e][i] : i \in 1..Len(calls[e])}
NonHookCalls(e) == SelectSeq(calls[e], LAMBDA c : c # "hook")
RunCall == IF op = "plan" THEN "plan" ELSE "apply"
\* The calls of one closure apart from its hooks, when nothing fails.
StepsInOrder ==
    <<"newSession", "init">>
        \o (IF op = "plan" /\ detach THEN <<"detach">> ELSE <<>>)
        \o <<RunCall>>
EarlySteps == {"newSession", "init", "detach"}

\* C22: the calls of an execution are made in the order session, init,
\* detach (detach plan only), plan/apply, each only after the one before
\* it succeeded; when session creation, init or detach fails, that call is
\* the execution's last, its only Result carries that step's error, and
\* the Result has a terraform result except for session creation.
C22_StepsGated ==
    \A e \in Execs :
        /\ IsPrefix(NonHookCalls(e), StepsInOrder)
        /\ \A i \in ResultsOf(e) :
             results[i].err \in EarlySteps =>
                 /\ calls[e][Len(calls[e])] = results[i].err
                 /\ Cardinality(ResultsOf(e)) = 1
                 /\ results[i].terraformResult = (results[i].err # "newSession")
                 /\ pc[e] = "done"

C22_Witness ==
    /\ op = "plan" /\ detach /\ closed = 1
    /\ \E e \in Execs : \E i \in ResultsOf(e) :
         /\ results[i].err = "detach" /\ results[i].terraformResult
         /\ NonHookCalls(e) = <<"newSession", "init", "detach">>

HookLine == "Running PreModuleRun hook"
HookLinesSent(e) == Cardinality({i \in 1..Len(statusLog[e]) : statusLog[e][i] = HookLine})
\* The hooks the closure of e iterates over.
HooksToRun(e) == IF op = "plan" THEN PlanHooks(e) ELSE GraphHooks(e)

\* C23: a flat apply makes no hook call and sends no hook status line,
\* whatever hooks the modules declare; on the plan path and under DAG
\* apply every hook call comes before init, one status line per call, and
\* init is reached only after all hooks of the list have been called.
C23_HooksNotOnFlatApply ==
    \A e \in Execs :
        /\ op = "apply" => CountCalls(e, "hook") = 0 /\ HookLinesSent(e) = 0
        /\ op # "apply" =>
             /\ \A i, j \in 1..Len(calls[e]) :
                  (i < j /\ calls[e][j] = "hook") => calls[e][i] \in {"newSession", "hook"}
             /\ HookLinesSent(e) = CountCalls(e, "hook")
             /\ CountCalls(e, "hook") <= HooksToRun(e)
             /\ "init" \in CallsMade(e) => CountCalls(e, "hook") = HooksToRun(e)

C23_Witness ==
    /\ op = "apply" /\ closed = 1
    /\ \E e \in Execs :
         /\ boundExecutions[e].hooks = MaxHooks
         /\ calls[e] = <<"newSession", "init", "apply">>
         /\ statusLog[e] = <<"Initializing", "Applying">>

\* C24: when a hook of an execution fails, that hook call is the
\* execution's last call, its only Result carries the hook error and no
\* terraform result, and under DAG apply the walker has the error and
\* nothing that depends on the execution is ever touched.
C24_HookFailureStops ==
    \A e \in Execs : \A i \in ResultsOf(e) :
        results[i].err = "hook" =>
            /\ calls[e][Len(calls[e])] = "hook"
            /\ CallsMade(e) \subseteq {"newSession", "hook"}
            /\ CountCalls(e, "hook") <= HooksToRun(e)
            /\ Cardinality(ResultsOf(e)) = 1
            /\ ~results[i].terraformResult
            /\ pc[e] = "done"
            /\ op = "applyWithGraph" =>
                 /\ walkErr[e]
                 /\ \A b \in Execs : e \in Ancestors(b) => Untouched(b)

C24_Witness ==
    /\ op = "applyWithGraph" /\ closed = 1
    /\ \E e, b \in Execs :
         /\ ErrResult(e) /\ calls[e] = <<"newSession", "hook">>
         /\ e \in Deps(b) /\ pc[b] = "skipped"

\* C25: on the plan path each closure calls exactly the hooks its own
\* execution's module configuration declares.
C25_OwnHooksOnPlan ==
    op = "plan" =>
        \A e \in Execs :
            /\ CountCalls(e, "hook") <= boundExecutions[e].hooks
            /\ "init" \in CallsMade(e) => CountCalls(e, "hook") = boundExecutions[e].hooks

\* C26: the status channel is never closed, before or after the result
\* channel is closed, so the loop that ranges over it can never see it
\* closed and drained.
C26_StatusNeverClosed ==
    /\ statusClosed = 0
    /\ ~(statusClosed > 0 /\ status = 0)

C26_Witness ==
    /\ closed = 1 /\ statusClosed = 0 /\ status > 0
    /\ printReturn # "running"

\* ------------------------------------------------------------------- unzip
ErrIllegalPath == "illegal file path in zip"
Returned == unzipReturn # "running"

\* The entry's name resolves to a path that is neither the destination
\* directory nor below it.
ResolvesOutside(f) ==
    LET path == Join(destDir, f.name)
        d == Clean(<<>>, destDir)
    IN ~(Len(path) >= Len(d) /\ SubSeq(path, 1, Len(d)) = d)
OutsideEntries == {i \in 1..Len(archive) : ResolvesOutside(archive[i])}
FirstOutside == CHOOSE i \in OutsideEntries : \A j \in OutsideEntries : i <= j

\* Everything unzip created or wrote lies strictly below the destination.
WrittenInside ==
    \A path \in written :
        /\ Len(path) > Len(destDir)
        /\ SubSeq(path, 1, Len(destDir)) = destDir

\* C21 as stated: unzip of an archive with an entry that resolves outside
\* the destination directory returns the error 'illegal file path in zip',
\* and unzip never creates or writes anything outside the destination.
C21_ZipSlipRejected ==
    /\ WrittenInside
    /\ (Returned /\ entryIndex > 0 /\ OutsideEntries # {})
            => unzipReturn = ErrIllegalPath

\* C21: unzip never creates or writes anything outside the destination
\* directory; for an archive with an entry that resolves outside it, unzip
\* returns a non-nil error no later than at the first such entry, and that
\* error is 'illegal file path in zip' whenever the entries before it were
\* extracted and the entry itself could be opened. An earlier failure (of
\* the archive reader, of an earlier entry, or of opening the entry) is
\* returned in its place.
C21_ZipSlipNeverExtracted ==
    /\ WrittenInside
    /\ (Returned /\ OutsideEntries # {}) =>
          /\ unzipReturn # "nil"
          /\ entryIndex <= FirstOutside
          /\ (entryIndex = FirstOutside
                => unzipReturn \in {ErrIllegalPath, "open"})
    /\ unzipReturn = ErrIllegalPath =>
          /\ entryIndex \in 1..Len(archive)
          /\ LET path == Join(destDir, archive[entryIndex].name)
             IN ~(Len(path) > Len(destDir)
                    /\ SubSeq(path, 1, Len(destDir)) = destDir)

\* The second entry is '../a' after a first entry that was extracted.
C21_Witness ==
    /\ Len(archive) = 2
    /\ archive[2].name = <<"..", "a">>
    /\ destDir = <<"dest">>
    /\ ~ResolvesOutside(archive[1])
    /\ written # {}
    /\ entryIndex = 2
    /\ unzipReturn = ErrIllegalPath

\* Entries that were extracted in full: directories made, files written
\* to their end.
Extracted(i) ==
    LET path == Join(destDir, archive[i].name)
    IN path \in written /\ path \notin incomplete

\* C28: unzip processes the entries in archive order, stops at the first
\* entry that fails and returns a non-nil error whenever a step of
\* extracting an entry fails, a failed copy of the entry's bytes included;
\* it returns nil only when every entry was completely written.
C28_NilMeansAllWritten ==
    /\ \A i \in 1..Len(archive) : i < entryIndex => Extracted(i)
    /\ unzipReturn = "nil" =>
          /\ entryIndex = Len(archive) + 1
          /\ \A i \in 1..Len(archive) : Extracted(i)

\* ------------------------------------- several flat runs on one Session
ActiveRuns == {r \in Runs : runState[r] = "active"}
CancelledNow == {r \in ActiveRuns : ~runCancelled[r] /\ runCancelled'[r]}

\* C27: each flat call has its own token and its own watcher, which takes at
\* most one signal from the Session's channel: a run prints the notice at
\* most once however many signals arrive, and when several flat runs are
\* active on the Session a signal taken from the channel cancels exactly one
\* of them.
C27_OneSignalCancelsOneRun ==
    /\ [](\A r \in DOMAIN runNotices : runNotices[r] <= 1)
    /\ [][(sessionSignalChan' < sessionSignalChan /\ Cardinality(ActiveRuns) >= 2)
            => Cardinality(CancelledNow) = 1]_vars

============================================================================
